---------------------------- MODULE Spec2Model ----------------------------
(* Payroll processing engine of ai-payroll-system: the Payroll and Employee *)
(* Mongoose models and the payroll controller's request handlers, as a     *)
(* state machine over the two MongoDB collections.                          *)
(*                                                                          *)
(* A MongoDB document is a TLA+ record whose DOMAIN is the set of paths    *)
(* that are set: a path the code leaves undefined is absent from DOMAIN.   *)
(* Paths no handler modelled here reads or writes (bank details, salary    *)
(* slip, notes, comments, timestamps) are left out of the documents.       *)
EXTENDS Integers, Sequences, FiniteSets, TLC

VARIABLES
    employees,  \* Employee collection: _id -> document
    payrolls,   \* Payroll collection: set of documents, each with an _id
    nextId,     \* next ObjectId the driver hands out for a new document
    clock,      \* wall clock read by new Date()
    requests,   \* number of requests received so far
    call,       \* per caller: the request handler in flight and its locals
    expenses    \* Expense collection: set of documents, each with an _id

vars == <<employees, payrolls, nextId, clock, requests, call, expenses>>

-----------------------------------------------------------------------------
(* Bounds and input sets *)

MaxRequests == 2                  \* requests the server receives in a run

Procs == {"p1", "p2"}             \* concurrent HTTP callers
EmpIds == {1, 2}                  \* _id values of the Employee collection
Users == {"admin"}                \* req.user.id
\* req.body <<month, year>>: a missing month (0), the period of the initial
\* ledger, a fresh period, a month past December, a negative year
PeriodInputs == {<<0, 2024>>, <<3, 2024>>, <<4, 2024>>, <<13, 2024>>, <<4, -1>>}
\* req.params.id: an ObjectId is a positive number here (99: one no document
\* has), and -1 stands for a string that is no ObjectId, such as "abc"
IdInputs == {1, 2, 99, -1}

-----------------------------------------------------------------------------
(* Generic document helpers *)

Max(a, b) == IF a >= b THEN a ELSE b

Has(doc, k) == k \in DOMAIN doc

Put(doc, k, v) == [x \in (DOMAIN doc) \cup {k} |-> IF x = k THEN v ELSE doc[x]]

\* doc with path (a sequence of 1..3 keys) set to v, as MongoDB's $set does
SetPath(doc, path, v) ==
    IF Len(path) = 1 THEN Put(doc, path[1], v)
    ELSE IF Len(path) = 2 THEN Put(doc, path[1], Put(doc[path[1]], path[2], v))
    ELSE Put(doc, path[1],
             Put(doc[path[1]], path[2], Put(doc[path[1]][path[2]], path[3], v)))

RECURSIVE SeqOfSet(_)
\* the elements of a finite set of integers in ascending order
SeqOfSet(S) ==
    IF S = {} THEN <<>>
    ELSE LET m == CHOOSE x \in S : \A y \in S : x <= y
         IN <<m>> \o SeqOfSet(S \ {m})

-----------------------------------------------------------------------------
(* Employee model (backend/models/Employee.js) *)

EmployeeStatuses == {"Active", "Inactive", "Terminated", "On Leave"}

\* the spec's worked example: basic 3000, hra 500, allowances 200
CfgExample ==
    [salary |-> [basic |-> 3000, hra |-> 500, allowances |-> 200],
     deductions |-> [tax |-> 300, providentFund |-> 150, insurance |-> 50, other |-> 0]]

\* deductions larger than earnings
CfgHighDeductions ==
    [salary |-> [basic |-> 100, hra |-> 0, allowances |-> 0],
     deductions |-> [tax |-> 500, providentFund |-> 0, insurance |-> 0, other |-> 20]]

\* a malformed salary configuration: salary.basic was never set
CfgMalformed ==
    [salary |-> [hra |-> 0, allowances |-> 0],
     deductions |-> [tax |-> 0, providentFund |-> 0, insurance |-> 0, other |-> 0]]

EmployeeDoc(id, status, cfg) ==
    [_id |-> id, employeeId |-> id, status |-> status,
     salary |-> cfg.salary, deductions |-> cfg.deductions]

ValidConfig(employee) == Has(employee.salary, "basic")

\* virtual('grossSalary'): undefined + number is NaN, modelled as <<>>
EmployeeGrossSalary(employee) ==
    IF Has(employee.salary, "basic")
    THEN <<employee.salary.basic + employee.salary.hra + employee.salary.allowances>>
    ELSE <<>>

\* fault variant: the status filter dropped: Employee.find({})
FindAllEmployees ==
    LET s == SeqOfSet(DOMAIN employees)
    IN [k \in 1..Len(s) |-> employees[s[k]]]

\* Employee.find({ status: 'Active' }), in _id order
FindActiveEmployees ==
    LET ids == {e \in DOMAIN employees : employees[e].status = "Active"}
        s == SeqOfSet(ids)
    IN [k \in 1..Len(s) |-> employees[s[k]]]

-----------------------------------------------------------------------------
(* Payroll model (payrollSchema, in backend/models/Department.js) *)

PaymentStatuses == {"Pending", "Processing", "Paid", "Failed", "On Hold"}
ApprovalStatuses == {"Pending", "Approved", "Rejected"}

\* paths with required: true and no default (validation fails when unset)
RequiredPaths ==
    {"employee", "month", "year", "payPeriodStart", "payPeriodEnd",
     "grossSalary", "totalEarnings", "totalDeductions", "netSalary"}

\* schema defaults, applied by the Payroll constructor to the paths left unset
SchemaDefaults ==
    [workingDays |-> 30, daysPresent |-> 30, daysAbsent |-> 0, holidays |-> 0,
     totalReimbursements |-> 0, paymentStatus |-> "Pending",
     paymentMethod |-> "Bank Transfer", salarySlipGenerated |-> FALSE,
     approvalStatus |-> "Pending"]

\* new Payroll(data): data over the schema defaults
ApplyDefaults(data) == data @@ SchemaDefaults

\* month: min 1, max 12
MonthValid(m) == m >= 1 /\ m <= 12

\* document validation (validateBeforeSave): required paths set, month in range
Validate(doc) ==
    /\ RequiredPaths \subseteq DOMAIN doc
    /\ Has(doc.earnings, "basicSalary")
    /\ MonthValid(doc.month)

SumEarnings(e) ==
    e.basicSalary + e.hra + e.allowances + e.bonuses + e.incentives
    + e.overtime.amount + e.arrears + e.other

SumDeductions(d) ==
    d.tax + d.providentFund + d.employeeStateInsurance + d.professionalTax
    + d.insurance + d.loan + d.advance + d.lateDeduction + d.other

SumReimbursements(r) ==
    r.travel + r.medical + r.food + r.communication + r.other

\* pre('save') middleware: totals from the components, net floored at zero
PreSave(doc) ==
    LET te == SumEarnings(doc.earnings)
        td == SumDeductions(doc.deductions)
        tr == SumReimbursements(doc.reimbursements)
    IN [totalEarnings |-> te, totalDeductions |-> td, totalReimbursements |-> tr,
        netSalary |-> Max(0, te - td + tr)] @@ doc

\* the key of the unique compound index
IndexKey(doc) == <<doc.employee, doc.month, doc.year>>

\* fault variant: the compound index declared without { unique: true }
NonUniqueIndexOk(docs, doc) == TRUE

\* unique index { employee, month, year }: no other document holds doc's key
UniqueIndexOk(docs, doc) ==
    \A d \in docs : d._id # doc._id => IndexKey(d) # IndexKey(doc)

\* fault variant: the gate counting only paid records of the period
FindOnePaidPeriod(month, year) ==
    \E d \in payrolls : d.month = month /\ d.year = year /\ d.paymentStatus = "Paid"

\* fault variant: a period counts as processed once a process call for it
\* has returned its Summary, whether or not it stored a record
FindOneAttempt(month, year) ==
    \/ \E d \in payrolls : d.month = month /\ d.year = year
    \/ \E q \in DOMAIN call : /\ call[q].op = "process" /\ call[q].pc = "done"
                               /\ call[q].resp.status = 201
                               /\ call[q].month = month /\ call[q].year = year

\* Payroll.findOne({ month, year }): whether a document matches
FindOnePeriod(month, year) ==
    \E d \in payrolls : d.month = month /\ d.year = year

\* the cast of an _id condition: findById(id) throws a CastError, which the
\* handler's catch answers with 500, when id is not an ObjectId
IsObjectId(id) == id > 0

\* the body of a handler's catch block
ServerError == [status |-> 500, success |-> FALSE]

\* Payroll.findById(id): the matching documents (none or one)
FindById(id) == {d \in payrolls : d._id = id}

\* Model.create / document.save() of a new document: validation runs first
\* (Mongoose's built-in pre('save') hook), then the schema's pre('save')
\* middleware, then the insert, which the unique index may reject.
\* Returns the error ("" when the document was inserted) and the document.
Create(data, id) ==
    LET doc == Put(ApplyDefaults(data), "_id", id)
    IN IF ~Validate(doc) THEN [error |-> "ValidationError", doc |-> doc]
       ELSE LET saved == PreSave(doc)
            IN IF ~UniqueIndexOk(payrolls, saved)
               THEN [error |-> "E11000 duplicate key", doc |-> saved]
               ELSE [error |-> "", doc |-> saved]

-----------------------------------------------------------------------------
(* Pay period dates *)

IsLeap(y) == (y % 4 = 0 /\ y % 100 # 0) \/ y % 400 = 0

\* days of the month with 0-based index mi of year y
DaysInMonth(y, mi) ==
    IF mi = 1 THEN (IF IsLeap(y) THEN 29 ELSE 28)
    ELSE IF mi \in {3, 5, 8, 10} THEN 30 ELSE 31

\* new Date(year, month - 1, 1): the Date constructor carries a month index
\* outside 0..11 into the year
PeriodStart(month, year) ==
    LET mi == month - 1
    IN [y |-> year + (mi \div 12), m |-> (mi % 12) + 1, d |-> 1]

\* new Date(year, month, 0): day 0 of the next month is the last day of this one
PeriodEnd(month, year) ==
    LET mi == month - 1
        y == year + (mi \div 12)
    IN [y |-> y, m |-> (mi % 12) + 1, d |-> DaysInMonth(y, mi % 12)]

-----------------------------------------------------------------------------
(* processPayroll: the payrollData literal built for one employee *)

\* earnings: basicSalary is undefined when the employee has no salary.basic
PayrollEarnings(employee) ==
    (IF Has(employee.salary, "basic")
     THEN [basicSalary |-> employee.salary.basic] ELSE <<>>)
    @@ [hra |-> employee.salary.hra, allowances |-> employee.salary.allowances,
        bonuses |-> 0, incentives |-> 0,
        overtime |-> [hours |-> 0, rate |-> 0, amount |-> 0],
        arrears |-> 0, other |-> 0]

PayrollDeductions(employee) ==
    [tax |-> employee.deductions.tax,
     providentFund |-> employee.deductions.providentFund,
     employeeStateInsurance |-> 0, professionalTax |-> 0,
     insurance |-> employee.deductions.insurance,
     loan |-> 0, advance |-> 0, lateDeduction |-> 0,
     other |-> employee.deductions.other]

ZeroReimbursements ==
    [travel |-> 0, medical |-> 0, food |-> 0, communication |-> 0, other |-> 0]

\* payrollData: no totalEarnings, totalDeductions or netSalary is supplied;
\* grossSalary is the employee's virtual, left unset here when it is NaN
BuildPayrollData(employee, month, year, user) ==
    (IF EmployeeGrossSalary(employee) # <<>>
     THEN [grossSalary |-> EmployeeGrossSalary(employee)[1]] ELSE <<>>)
    @@ [employee |-> employee._id, month |-> month, year |-> year,
        payPeriodStart |-> PeriodStart(month, year),
        payPeriodEnd |-> PeriodEnd(month, year),
        workingDays |-> 30, daysPresent |-> 30, daysAbsent |-> 0,
        leaves |-> [casual |-> 0, sick |-> 0, paid |-> 0, unpaid |-> 0],
        earnings |-> PayrollEarnings(employee),
        deductions |-> PayrollDeductions(employee),
        reimbursements |-> ZeroReimbursements,
        processedBy |-> user]

-----------------------------------------------------------------------------
(* Initial state *)

\* a ledger entry as document.save() writes it: defaults applied, totals as
\* the pre('save') middleware computes them
LedgerEntry(id, employee, month, year, user) ==
    PreSave(Put(ApplyDefaults(BuildPayrollData(employee, month, year, user)),
                "_id", id))

\* the March 2024 entries the Payroll collection may hold at start
InitialLedger ==
    {LedgerEntry(1, EmployeeDoc(1, "Active", CfgExample), 3, 2024, "admin"),
     LedgerEntry(2, EmployeeDoc(2, "Active", CfgHighDeductions), 3, 2024, "admin")}

\* a caller with no request in flight
Idle ==
    [pc |-> "idle", op |-> "none", month |-> 0, year |-> 0, user |-> "",
     emps |-> <<>>, i |-> 0, created |-> <<>>, errors |-> <<>>,
     id |-> 0, body |-> {}, txn |-> "", doc |-> <<>>, ai |-> <<>>,
     resp |-> [status |-> 0]]

\* The two collections outlive the server process, so the server starts on
\* whatever they hold: employee 2 Active or On Leave (Terminated is reached
\* through deleteEmployee), with a proper or a malformed salary
\* configuration, and any part of the March ledger.
Init ==
    /\ \E s1 \in {"Active"}, s2 \in {"Active", "On Leave"},
          c2 \in {CfgHighDeductions, CfgMalformed} :
          employees = (1 :> EmployeeDoc(1, s1, CfgExample))
                      @@ (2 :> EmployeeDoc(2, s2, c2))
    /\ payrolls \in SUBSET InitialLedger
    /\ nextId = 3
    /\ clock = 0
    /\ requests = 0
    /\ call = [p \in Procs |-> Idle]
    /\ expenses = {}

-----------------------------------------------------------------------------
(* processPayroll *)

\* a fresh request of caller p
Begin(p, op) == [Idle EXCEPT !.op = op]

\* caller p has no request in flight and may send one; the callers are
\* named in the order of their first request (p1 sends the first one)
CanStart(p) ==
    /\ call[p].pc \in {"idle", "done"}
    /\ requests < MaxRequests
    /\ p = "p2" => call["p1"].pc # "idle"

\* !month || !year
MissingPeriod(month, year) == month = 0 \/ year = 0

\* res.status(201).json({ success: true, data: { processed, failed, errors } })
ProcessSummary(c) ==
    [status |-> 201, success |-> TRUE, processed |-> Len(c.created),
     failed |-> Len(c.errors), errors |-> c.errors]

\* fault variant: a catch block that swallows the error without recording it
DropEmployeeError(c, employee, err) == c

\* catch (err): errors.push({ employee: employee.employeeId, error })
CatchEmployeeError(c, employee, err) ==
    [c EXCEPT !.errors = Append(@, [employee |-> employee.employeeId, error |-> err])]

\* the end of one loop iteration: the next employee, or the response
NextEmployee(c) ==
    IF c.i = Len(c.emps)
    THEN [c EXCEPT !.pc = "done", !.resp = ProcessSummary(c)]
    ELSE [c EXCEPT !.i = @ + 1]

\* the handler up to its first query: the month/year guard and the period gate
ProcessPayroll(p, month, year, user) ==
    /\ CanStart(p)
    /\ LET c == [Begin(p, "process") EXCEPT !.month = month, !.year = year,
                                            !.user = user]
       IN call' = [call EXCEPT ![p] =
            IF MissingPeriod(month, year)
            THEN [c EXCEPT !.pc = "done",
                           !.resp = [status |-> 400, success |-> FALSE,
                                     message |-> "Please provide month and year"]]
            ELSE IF FindOnePeriod(month, year)
            THEN [c EXCEPT !.pc = "done",
                           !.resp = [status |-> 400, success |-> FALSE,
                                     message |-> "already processed"]]
            ELSE [c EXCEPT !.pc = "fetch"]]
    /\ requests' = requests + 1
    /\ UNCHANGED <<employees, payrolls, nextId, clock, expenses>>

\* const employees = await Employee.find({ status: 'Active' })
ProcessFetch(p) ==
    /\ call[p].pc = "fetch"
    /\ LET c == [call[p] EXCEPT !.emps = FindActiveEmployees]
       IN call' = [call EXCEPT ![p] =
            IF Len(c.emps) = 0
            THEN [c EXCEPT !.pc = "done", !.resp = ProcessSummary(c)]
            ELSE [c EXCEPT !.pc = "loop", !.i = 1]]
    /\ UNCHANGED <<employees, payrolls, nextId, clock, requests, expenses>>

\* one iteration of the for loop: build payrollData, Payroll.create, catch
ProcessEmployee(p) ==
    /\ call[p].pc = "loop"
    /\ LET c == call[p]
           employee == c.emps[c.i]
           r == Create(BuildPayrollData(employee, c.month, c.year, c.user), nextId)
       IN IF r.error = ""
          THEN /\ payrolls' = payrolls \cup {r.doc}
               /\ nextId' = nextId + 1
               /\ call' = [call EXCEPT ![p] =
                       NextEmployee([c EXCEPT !.created = Append(@, r.doc._id)])]
          ELSE /\ call' = [call EXCEPT ![p] =
                       NextEmployee(CatchEmployeeError(c, employee, r.error))]
               /\ UNCHANGED <<payrolls, nextId>>
    /\ UNCHANGED <<employees, clock, requests, expenses>>

-----------------------------------------------------------------------------
(* updatePayroll *)

\* req.body of an update: a set of <<path, value>> pairs, one per path
UpdateBodies ==
    {{<< <<"earnings", "bonuses">>, 50 >>},
     {<< <<"earnings", "basicSalary">>, 1000 >>},
     {<< <<"netSalary">>, -5 >>},
     {<< <<"employee">>, 1 >>},
     {<< <<"month">>, 13 >>},
     {<< <<"paymentStatus">>, "Failed" >>},
     {<< <<"paymentStatus">>, "Paid" >>},
     {<< <<"approvalStatus">>, "Approved" >>}}

\* <<req.params.id, req.body>> of an update: every body on record 1, the
\* bodies that tell the records apart on record 2, and one body on an id no
\* record has and on a string that is no ObjectId
UpdateInputs ==
    {<<1, body>> : body \in UpdateBodies}
    \cup {<<2, {<< <<"employee">>, 1 >>}>>,
          <<2, {<< <<"paymentStatus">>, "Failed" >>}>>,
          <<99, {<< <<"earnings", "bonuses">>, 50 >>}>>,
          <<-1, {<< <<"earnings", "bonuses">>, 50 >>}>>}

\* runValidators: true runs the validators of the paths the update sets
UpdateValid(body) ==
    \A a \in body :
        /\ a[1] = <<"month">> => MonthValid(a[2])
        /\ a[1] = <<"paymentStatus">> => a[2] \in PaymentStatuses
        /\ a[1] = <<"approvalStatus">> => a[2] \in ApprovalStatuses

RECURSIVE ApplyUpdate(_, _)
\* the document after $set of every path of body; no hook of the schema runs
ApplyUpdate(doc, body) ==
    IF body = {} THEN doc
    ELSE LET a == CHOOSE x \in body : TRUE
         IN ApplyUpdate(SetPath(doc, a[1], a[2]), body \ {a})

\* Payroll.findById, then Payroll.findByIdAndUpdate(id, req.body,
\* { new: true, runValidators: true })
UpdatePayroll(p, id, body) ==
    /\ CanStart(p)
    /\ LET c == [Begin(p, "update") EXCEPT !.id = id, !.body = body, !.pc = "done"]
           found == FindById(id)
       IN IF ~IsObjectId(id)
          THEN /\ call' = [call EXCEPT ![p] = [c EXCEPT !.resp = ServerError]]
               /\ UNCHANGED payrolls
          ELSE IF found = {}
          THEN /\ call' = [call EXCEPT ![p] =
                       [c EXCEPT !.resp = [status |-> 404, success |-> FALSE]]]
               /\ UNCHANGED payrolls
          ELSE LET old == CHOOSE d \in found : TRUE
                   new == ApplyUpdate(old, body)
               IN IF ~UpdateValid(body) \/ ~UniqueIndexOk(payrolls, new)
                  THEN /\ call' = [call EXCEPT ![p] =
                               [c EXCEPT !.resp = [status |-> 500, success |-> FALSE]]]
                       /\ UNCHANGED payrolls
                  ELSE /\ payrolls' = (payrolls \ {old}) \cup {new}
                       /\ call' = [call EXCEPT ![p] =
                               [c EXCEPT !.resp = [status |-> 200, success |-> TRUE,
                                                   data |-> new]]]
    /\ requests' = requests + 1
    /\ UNCHANGED <<employees, nextId, clock, expenses>>

-----------------------------------------------------------------------------
(* markAsPaid *)

Txns == {"TXN123", "TXN456"}      \* req.body.transactionId

\* fault variant: a record that is already Paid is left as it is
SetPaidOnce(doc, now, txn) ==
    IF doc.paymentStatus = "Paid" THEN doc
    ELSE Put(Put(Put(doc, "paymentStatus", "Paid"), "paymentDate", now),
             "transactionId", txn)

\* fault variant: paying a record also approves it
SetPaidApproving(doc, now, txn) ==
    Put(Put(Put(Put(doc, "paymentStatus", "Paid"), "paymentDate", now),
            "transactionId", txn), "approvalStatus", "Approved")

\* fault variant: the transaction id is not stored
SetPaidNoTransaction(doc, now, txn) ==
    Put(Put(doc, "paymentStatus", "Paid"), "paymentDate", now)

\* payrollSchema.methods.markAsPaid, before save()
SetPaid(doc, now, txn) ==
    Put(Put(Put(doc, "paymentStatus", "Paid"), "paymentDate", now),
        "transactionId", txn)

\* the top-level paths save() writes: those whose value differs from the
\* value the document was loaded with
ModifiedPaths(loaded, mem) ==
    {k \in DOMAIN mem : ~Has(loaded, k) \/ loaded[k] # mem[k]}

\* fault variant: save() inserts the document as a new one
WriteAsNew(cur, loaded, mem) == Put(mem, "_id", nextId)

\* the stored document after $set of the modified paths
WriteModified(cur, loaded, mem) ==
    LET mod == ModifiedPaths(loaded, mem)
    IN [k \in (DOMAIN cur) \cup mod |-> IF k \in mod THEN mem[k] ELSE cur[k]]

\* const payroll = await Payroll.findById(req.params.id)
MarkAsPaid(p, id, txn) ==
    /\ CanStart(p)
    /\ LET c == [Begin(p, "markPaid") EXCEPT !.id = id, !.txn = txn]
           found == FindById(id)
       IN call' = [call EXCEPT ![p] =
            IF ~IsObjectId(id)
            THEN [c EXCEPT !.pc = "done", !.resp = ServerError]
            ELSE IF found = {}
            THEN [c EXCEPT !.pc = "done", !.resp = [status |-> 404, success |-> FALSE]]
            ELSE [c EXCEPT !.pc = "save", !.doc = CHOOSE d \in found : TRUE]]
    /\ requests' = requests + 1
    /\ UNCHANGED <<employees, payrolls, nextId, clock, expenses>>

\* await payroll.markAsPaid(transactionId): set the three paths, then save():
\* validation, the pre('save') middleware, the write of the modified paths
MarkAsPaidSave(p) ==
    /\ call[p].pc = "save"
    /\ LET c == call[p]
           set == SetPaid(c.doc, clock + 1, c.txn)
           mem == PreSave(set)
           cur == CHOOSE d \in payrolls : d._id = c.id
       IN IF ~Validate(set)
          THEN /\ call' = [call EXCEPT ![p] =
                       [c EXCEPT !.pc = "done",
                                 !.resp = [status |-> 500, success |-> FALSE]]]
               /\ UNCHANGED payrolls
          ELSE /\ payrolls' = (payrolls \ {cur}) \cup {WriteModified(cur, c.doc, mem)}
               /\ call' = [call EXCEPT ![p] =
                       [c EXCEPT !.pc = "done",
                                 !.resp = [status |-> 200, success |-> TRUE,
                                           data |-> mem]]]
    /\ clock' = clock + 1
    /\ UNCHANGED <<employees, nextId, requests, expenses>>

-----------------------------------------------------------------------------
(* updateEmployee, deleteEmployee (employee controller) *)

EmpIdInputs == {1, 2, 99}         \* req.params.id of an employee request

\* req.body of an employee update: a new salary and deduction configuration
EmployeeBodies ==
    {{<< <<"salary", "basic">>, 4000 >>, << <<"deductions", "tax">>, 10 >>}}

\* runValidators: true on the employee schema: status is one of the enum
EmployeeUpdateValid(body) ==
    \A a \in body : a[1] = <<"status">> => a[2] \in EmployeeStatuses

\* Employee.findById(id): the matching documents (none or one)
FindEmployeeById(id) == {employees[e] : e \in {x \in DOMAIN employees : x = id}}

\* fault variant: payroll records that follow the employee's configuration
ResnapshotPayrolls(employee) ==
    {IF d.employee = employee._id
     THEN Put(Put(d, "earnings", PayrollEarnings(employee)),
              "deductions", PayrollDeductions(employee))
     ELSE d : d \in payrolls}

\* the Payroll collection after an employee write: the employee handlers
\* issue no Payroll query, and a record holds copies, not references
PayrollsAfterEmployeeWrite(employee) == payrolls

\* Employee.findById, req.body.updatedBy = req.user.id, then
\* Employee.findByIdAndUpdate(id, req.body, { new: true, runValidators: true })
UpdateEmployee(p, id, body, user) ==
    /\ CanStart(p)
    /\ LET c == [Begin(p, "updateEmployee") EXCEPT !.id = id, !.body = body,
                                                   !.user = user, !.pc = "done"]
           found == FindEmployeeById(id)
       IN IF found = {}
          THEN /\ call' = [call EXCEPT ![p] =
                       [c EXCEPT !.resp = [status |-> 404, success |-> FALSE]]]
               /\ UNCHANGED <<employees, payrolls>>
          ELSE LET old == CHOOSE e \in found : TRUE
                   new == Put(ApplyUpdate(old, body), "updatedBy", user)
               IN IF ~EmployeeUpdateValid(body)
                  THEN /\ call' = [call EXCEPT ![p] =
                               [c EXCEPT !.resp = [status |-> 500, success |-> FALSE]]]
                       /\ UNCHANGED <<employees, payrolls>>
                  ELSE /\ employees' = [employees EXCEPT ![id] = new]
                       /\ payrolls' = PayrollsAfterEmployeeWrite(new)
                       /\ call' = [call EXCEPT ![p] =
                               [c EXCEPT !.resp = [status |-> 200, success |-> TRUE,
                                                   data |-> new]]]
    /\ requests' = requests + 1
    /\ UNCHANGED <<nextId, clock, expenses>>

\* fault variant: the employee document is removed
HardDelete(old) == [e \in DOMAIN employees \ {old._id} |-> employees[e]]

\* employee.status = 'Terminated'; await employee.save(): the Employee
\* collection after the soft delete
SoftDelete(old) == [employees EXCEPT ![old._id] = [old EXCEPT !.status = "Terminated"]]

\* Employee.findById, employee.status = 'Terminated', employee.save():
\* the soft delete. save() validates the document first, so it fails for an
\* employee whose required salary.basic is unset.
DeleteEmployee(p, id) ==
    /\ CanStart(p)
    /\ LET c == [Begin(p, "deleteEmployee") EXCEPT !.id = id, !.pc = "done"]
           found == FindEmployeeById(id)
       IN IF found = {}
          THEN /\ call' = [call EXCEPT ![p] =
                       [c EXCEPT !.resp = [status |-> 404, success |-> FALSE]]]
               /\ UNCHANGED <<employees, payrolls>>
          ELSE LET old == CHOOSE e \in found : TRUE
               IN IF ~ValidConfig(old)
                  THEN /\ call' = [call EXCEPT ![p] =
                               [c EXCEPT !.resp = [status |-> 500, success |-> FALSE]]]
                       /\ UNCHANGED <<employees, payrolls>>
                  ELSE /\ employees' = SoftDelete(old)
                       /\ payrolls' = PayrollsAfterEmployeeWrite(old)
                       /\ call' = [call EXCEPT ![p] =
                               [c EXCEPT !.resp = [status |-> 200, success |-> TRUE]]]
    /\ requests' = requests + 1
    /\ UNCHANGED <<nextId, clock, expenses>>

-----------------------------------------------------------------------------
(* getPayroll, generateSalarySlip *)

\* populate('employee', ...): the referenced employee, or null (<<>>)
PopulateEmployee(doc) ==
    IF Has(doc, "employee") /\ doc.employee \in DOMAIN employees
    THEN Put(doc, "employee", employees[doc.employee])
    ELSE Put(doc, "employee", <<>>)

\* Payroll.findById(req.params.id).populate(...), 404 when there is none
GetPayroll(p, id) ==
    /\ CanStart(p)
    /\ LET c == [Begin(p, "get") EXCEPT !.id = id, !.pc = "done"]
           found == FindById(id)
       IN call' = [call EXCEPT ![p] =
            IF ~IsObjectId(id)
            THEN [c EXCEPT !.resp = ServerError]
            ELSE IF found = {}
            THEN [c EXCEPT !.resp = [status |-> 404, success |-> FALSE]]
            ELSE [c EXCEPT !.resp = [status |-> 200, success |-> TRUE,
                                     data |-> PopulateEmployee(CHOOSE d \in found : TRUE)]]]
    /\ requests' = requests + 1
    /\ UNCHANGED <<employees, payrolls, nextId, clock, expenses>>

\* Payroll.findById(req.params.id).populate('employee', ...), 404 when there
\* is none, else the PDF written from the record: the Content-Disposition
\* header reads payroll.employee.employeeId, which throws when populate
\* found no employee
GenerateSalarySlip(p, id) ==
    /\ CanStart(p)
    /\ LET c == [Begin(p, "slip") EXCEPT !.id = id, !.pc = "done"]
           found == FindById(id)
       IN call' = [call EXCEPT ![p] =
            IF ~IsObjectId(id)
            THEN [c EXCEPT !.resp = ServerError]
            ELSE IF found = {}
            THEN [c EXCEPT !.resp = [status |-> 404, success |-> FALSE]]
            ELSE LET doc == PopulateEmployee(CHOOSE d \in found : TRUE)
                 IN IF doc.employee = <<>>
                    THEN [c EXCEPT !.resp = ServerError]
                    ELSE [c EXCEPT !.resp = [status |-> 200, pdf |-> doc]]]
    /\ requests' = requests + 1
    /\ UNCHANGED <<employees, payrolls, nextId, clock, expenses>>

-----------------------------------------------------------------------------
(* getPayrollStats, Payroll.getTotalPayroll *)

\* req.query { month, year } as the characters of the query string: March
\* 2024, April 2024 written "04", and a request without month
StatsQueries ==
    {[month |-> <<"3">>, year |-> <<"2", "0", "2", "4">>],
     [month |-> <<"0", "4">>, year |-> <<"2", "0", "2", "4">>],
     [month |-> <<>>, year |-> <<"2", "0", "2", "4">>]}

Digits == <<"0", "1", "2", "3", "4", "5", "6", "7", "8", "9">>
IsDigit(ch) == \E k \in 1..10 : Digits[k] = ch
DigitValue(ch) == (CHOOSE k \in 1..10 : Digits[k] = ch) - 1

RECURSIVE LeadingDigits(_, _, _)
\* the value of the longest prefix of digits of str from position k on,
\* acc being the value of the digits read so far
LeadingDigits(str, k, acc) ==
    IF k > Len(str) \/ ~IsDigit(str[k]) THEN acc
    ELSE LeadingDigits(str, k + 1, 10 * acc + DigitValue(str[k]))

RECURSIVE SkipSpaces(_, _)
SkipSpaces(str, k) ==
    IF k <= Len(str) /\ str[k] = " " THEN SkipSpaces(str, k + 1) ELSE k

\* parseInt(str): leading blanks, an optional sign, then the digits up to the
\* first other character; NaN when there is no digit (or no string at all)
ParseInt(str) ==
    LET k == SkipSpaces(str, 1)
        neg == k <= Len(str) /\ str[k] = "-"
        j == IF k <= Len(str) /\ str[k] \in {"-", "+"} THEN k + 1 ELSE k
    IN IF j > Len(str) \/ ~IsDigit(str[j]) THEN [nan |-> TRUE, n |-> 0]
       ELSE [nan |-> FALSE,
             n |-> IF neg THEN 0 - LeadingDigits(str, j, 0)
                   ELSE LeadingDigits(str, j, 0)]

\* fault variant: a $match without the paymentStatus condition
StatsMatchAll(pm, py) ==
    {d \in payrolls : /\ ~pm.nan /\ d.month = pm.n
                      /\ ~py.nan /\ d.year = py.n}

\* $match: { month, year, paymentStatus: { $ne: 'Failed' } }; NaN equals no
\* stored number
StatsMatch(pm, py) ==
    {d \in payrolls : /\ ~pm.nan /\ d.month = pm.n
                      /\ ~py.nan /\ d.year = py.n
                      /\ ~(Has(d, "paymentStatus") /\ d.paymentStatus = "Failed")}

RECURSIVE SumField(_, _)
\* { $sum: '$field' } over the documents of a group; a missing field adds 0
SumField(docs, field) ==
    IF docs = {} THEN 0
    ELSE LET d == CHOOSE x \in docs : TRUE
         IN (IF Has(d, field) THEN d[field] ELSE 0) + SumField(docs \ {d}, field)

\* Payroll.getTotalPayroll: the one group of the aggregation, or the zero
\* aggregate when no document matched
GetTotalPayroll(pm, py) ==
    LET docs == StatsMatch(pm, py)
    IN IF docs = {}
       THEN [totalGross |-> 0, totalEarnings |-> 0, totalDeductions |-> 0,
             totalNet |-> 0, count |-> 0]
       ELSE [_id |-> "null",
             totalGross |-> SumField(docs, "grossSalary"),
             totalEarnings |-> SumField(docs, "totalEarnings"),
             totalDeductions |-> SumField(docs, "totalDeductions"),
             totalNet |-> SumField(docs, "netSalary"),
             count |-> Cardinality(docs)]

\* getPayrollStats: parseInt of both query values, then the aggregate. The
\* call keeps the parsed month and year (0 for NaN).
GetPayrollStats(p, query) ==
    /\ CanStart(p)
    /\ LET pm == ParseInt(query.month)
           py == ParseInt(query.year)
           c == [Begin(p, "stats") EXCEPT !.month = pm.n, !.year = py.n,
                                          !.pc = "done"]
       IN call' = [call EXCEPT ![p] =
            [c EXCEPT !.resp = [status |-> 200, success |-> TRUE,
                                data |-> GetTotalPayroll(pm, py)]]]
    /\ requests' = requests + 1
    /\ UNCHANGED <<employees, payrolls, nextId, clock, expenses>>

-----------------------------------------------------------------------------
(* Payroll.getEmployeeHistory *)

DefaultHistoryLimit == 12         \* getEmployeeHistory(employeeId, limit = 12)

\* the limit argument: left out, or a number (0, 1, 2)
HistoryLimits ==
    {[given |-> FALSE, n |-> 0], [given |-> TRUE, n |-> 0],
     [given |-> TRUE, n |-> 1], [given |-> TRUE, n |-> 2]}

\* sort key '-year -month': a comes before b
Newer(a, b) == a.year > b.year \/ (a.year = b.year /\ a.month > b.month)

RECURSIVE SortByPeriodDesc(_)
\* .sort('-year -month')
SortByPeriodDesc(docs) ==
    IF docs = {} THEN <<>>
    ELSE LET d == CHOOSE x \in docs : \A y \in docs : ~Newer(y, x)
         IN <<d>> \o SortByPeriodDesc(docs \ {d})

\* .limit(n): the first n documents; MongoDB reads a limit of 0 as no limit
Limit(docs, n) ==
    IF n = 0 THEN docs
    ELSE SubSeq(docs, 1, IF n < Len(docs) THEN n ELSE Len(docs))

\* this.find({ employee: employeeId }).sort('-year -month').limit(limit)
\*     .populate('employee', 'firstName lastName employeeId')
GetEmployeeHistory(employeeId, limit) ==
    LET n == IF limit.given THEN limit.n ELSE DefaultHistoryLimit
        found == Limit(SortByPeriodDesc({d \in payrolls : d.employee = employeeId}), n)
    IN [k \in 1..Len(found) |-> PopulateEmployee(found[k])]

-----------------------------------------------------------------------------
(* getPayrollRecords *)

\* req.query of a list request: no filter, and the March 2024 filter; page
\* and limit are left out, so they are 1 and 10
ListQueries ==
    {[month |-> <<>>, year |-> <<>>],
     [month |-> <<"3">>, year |-> <<"2", "0", "2", "4">>]}

\* if (month) query.month = parseInt(month); if (year) query.year = parseInt(year)
ListMatch(query) ==
    LET pm == ParseInt(query.month)
        py == ParseInt(query.year)
    IN {d \in payrolls :
          /\ query.month # <<>> => (~pm.nan /\ d.month = pm.n)
          /\ query.year # <<>> => (~py.nan /\ d.year = py.n)}

\* Payroll.find(query).populate(...).limit(10).skip(0).sort('-year -month')
\* and Payroll.countDocuments(query); records of one period come in the
\* order the sort leaves them
GetPayrollRecords(p, query) ==
    /\ CanStart(p)
    /\ LET c == [Begin(p, "list") EXCEPT !.pc = "done"]
           found == Limit(SortByPeriodDesc(ListMatch(query)), 10)
           total == Cardinality(ListMatch(query))
       IN call' = [call EXCEPT ![p] =
            [c EXCEPT !.resp =
                [status |-> 200, success |-> TRUE, count |-> Len(found),
                 total |-> total, pages |-> (total + 9) \div 10,
                 data |-> [k \in 1..Len(found) |-> PopulateEmployee(found[k])]]]]
    /\ requests' = requests + 1
    /\ UNCHANGED <<employees, payrolls, nextId, clock, expenses>>

-----------------------------------------------------------------------------

Next ==
    \/ \E p \in Procs, period \in PeriodInputs, user \in Users :
          ProcessPayroll(p, period[1], period[2], user)
    \/ \E p \in Procs : ProcessFetch(p)
    \/ \E p \in Procs : ProcessEmployee(p)
    \/ \E p \in Procs, in \in UpdateInputs : UpdatePayroll(p, in[1], in[2])
    \/ \E p \in Procs, id \in IdInputs, txn \in Txns : MarkAsPaid(p, id, txn)
    \/ \E p \in Procs : MarkAsPaidSave(p)
    \/ \E p \in Procs, id \in EmpIdInputs, body \in EmployeeBodies, user \in Users :
          UpdateEmployee(p, id, body, user)
    \/ \E p \in Procs, id \in EmpIdInputs : DeleteEmployee(p, id)
    \/ \E p \in Procs, id \in IdInputs : GetPayroll(p, id)
    \/ \E p \in Procs, id \in IdInputs : GenerateSalarySlip(p, id)
    \/ \E p \in Procs, query \in StatsQueries : GetPayrollStats(p, query)
    \/ \E p \in Procs, query \in ListQueries : GetPayrollRecords(p, query)

Spec == Init /\ [][Next]_vars

-----------------------------------------------------------------------------
(* Payroll.getEmployeeHistory as a call *)

\* the records a long-lived ledger may hold: fourteen consecutive months of
\* employee 1 (December 2022 to January 2024) and one month of employee 2
HistoryPool ==
    {LedgerEntry(1, EmployeeDoc(1, "Active", CfgExample), 12, 2022, "admin")}
    \cup {LedgerEntry(m + 1, EmployeeDoc(1, "Active", CfgExample), m, 2023, "admin") :
             m \in 1..12}
    \cup {LedgerEntry(14, EmployeeDoc(1, "Active", CfgExample), 1, 2024, "admin"),
          LedgerEntry(15, EmployeeDoc(2, "Active", CfgHighDeductions), 6, 2023, "admin")}

HistoryInit ==
    /\ employees = (1 :> EmployeeDoc(1, "Active", CfgExample))
                   @@ (2 :> EmployeeDoc(2, "Active", CfgHighDeductions))
    /\ payrolls \in SUBSET HistoryPool
    /\ nextId = 16
    /\ clock = 0
    /\ requests = 0
    /\ call = [p \in Procs |-> Idle]
    /\ expenses = {}

\* one call of Payroll.getEmployeeHistory; the call keeps the employee id in
\* id and the limit argument, when given, in body
HistoryQuery(p, employeeId, limit) ==
    /\ requests = 0
    /\ LET c == [Begin(p, "history") EXCEPT
                    !.id = employeeId,
                    !.body = IF limit.given THEN {<< <<"limit">>, limit.n >>} ELSE {},
                    !.pc = "done"]
       IN call' = [call EXCEPT ![p] =
            [c EXCEPT !.resp = [status |-> 200,
                                data |-> GetEmployeeHistory(employeeId, limit)]]]
    /\ requests' = requests + 1
    /\ UNCHANGED <<employees, payrolls, nextId, clock, expenses>>

HistoryNext ==
    \E p \in Procs, employeeId \in EmpIds, limit \in HistoryLimits :
        HistoryQuery(p, employeeId, limit)

HistorySpec == HistoryInit /\ [][HistoryNext]_vars

-----------------------------------------------------------------------------
(* Expense model (expenseSchema) and the ML service client *)

\* category enum of expenseSchema
ExpenseCategories ==
    {"Salary", "Rent", "Utilities", "Marketing", "Software", "Hardware",
     "Travel", "Office Supplies", "Insurance", "Legal", "Training",
     "Entertainment", "Maintenance", "Other"}

\* req.user of an expense request
ExpenseUsers == {[id |-> "admin", role |-> "Admin"], [id |-> "u1", role |-> "Employee"]}

\* Date.now, read by the date default. A Date is modelled by its calendar
\* fields in the server's time zone, which is what getMonth and getFullYear read.
Today == [y |-> 2024, m |-> 4, d |-> 1]

\* Date.prototype.getMonth (0..11) and getFullYear
GetMonth(date) == date.m - 1
GetFullYear(date) == date.y

\* the expense form: title and amount, with or without a category and a date
ExpenseForms ==
    {[title |-> "Taxi", amount |-> 100] @@ c @@ d :
        c \in {<<>>, [category |-> "Other"], [category |-> "Travel"]},
        d \in {<<>>, [date |-> [y |-> 2024, m |-> 3, d |-> 15]],
               [date |-> [y |-> 2023, m |-> 12, d |-> 31]]}}

\* schema defaults of the paths modelled
ExpenseDefaults == [category |-> "Other", aiSuggested |-> FALSE, date |-> Today]

\* document validation: required title, amount, date, createdBy; amount >= 0;
\* category in the enum; month 1..12 and aiConfidence 0..1 when set
\* (aiConfidence is kept in hundredths)
ValidateExpense(doc) ==
    /\ {"title", "amount", "date", "createdBy"} \subseteq DOMAIN doc
    /\ doc.amount >= 0
    /\ Has(doc, "category") => doc.category \in ExpenseCategories
    /\ Has(doc, "month") => (doc.month >= 1 /\ doc.month <= 12)
    /\ Has(doc, "aiConfidence") => (doc.aiConfidence >= 0 /\ doc.aiConfidence <= 100)

\* expenseSchema.pre('save'): month and year from the date
ExpensePreSave(doc) ==
    IF Has(doc, "date")
    THEN Put(Put(doc, "month", GetMonth(doc.date) + 1), "year", GetFullYear(doc.date))
    ELSE doc

\* what the POST to /ml/categorize comes back with: a failure (no
\* connection, a timeout, an error status), or a category and a confidence
\* in hundredths; 'Food' is a category the expense schema does not know
MlReplies ==
    {[ok |-> FALSE],
     [ok |-> TRUE, category |-> "Software", confidence |-> 50],
     [ok |-> TRUE, category |-> "Software", confidence |-> 60],
     [ok |-> TRUE, category |-> "Software", confidence |-> 90],
     [ok |-> TRUE, category |-> "Food", confidence |-> 90]}

\* MLServiceClient.categorizeExpense: the try and the catch
CategorizeExpense(reply) ==
    IF reply.ok
    THEN [success |-> TRUE, category |-> reply.category, confidence |-> reply.confidence]
    ELSE [success |-> FALSE, category |-> "Other", confidence |-> 0]

\* !req.body.category || req.body.category === 'Other'
NeedsCategory(body) == ~Has(body, "category") \/ body.category = "Other"

\* fault variant: a confidence of exactly 0.6 is accepted
AcceptsAtThreshold(aiResult) == aiResult.success /\ aiResult.confidence >= 60

\* aiResult.success && aiResult.confidence > 0.6
AcceptsSuggestion(aiResult) == aiResult.success /\ aiResult.confidence > 60

\* req.body after the if block that applies the suggestion
ApplySuggestion(body, aiResult) ==
    IF AcceptsSuggestion(aiResult)
    THEN Put(Put(Put(body, "category", aiResult.category), "aiSuggested", TRUE),
             "aiConfidence", aiResult.confidence)
    ELSE body

\* Expense.create(req.body) and the response: validation, the pre('save')
\* hook, the insert; 500 from the catch when validation fails
CreateAndRespond(p, c, body) ==
    LET doc == Put(body @@ ExpenseDefaults, "_id", nextId)
    IN IF ~ValidateExpense(doc)
       THEN /\ call' = [call EXCEPT ![p] = [c EXCEPT !.pc = "done", !.resp = ServerError]]
            /\ UNCHANGED <<expenses, nextId>>
       ELSE /\ expenses' = expenses \cup {ExpensePreSave(doc)}
            /\ nextId' = nextId + 1
            /\ call' = [call EXCEPT ![p] =
                    [c EXCEPT !.pc = "done",
                              !.resp = [status |-> 201, success |-> TRUE,
                                        data |-> ExpensePreSave(doc)]]]

\* createExpense up to the await of the ML service, or to the end when the
\* service is not consulted; the call keeps req.body in doc
CreateExpense(p, form, user) ==
    /\ CanStart(p)
    /\ LET body == Put(form, "createdBy", user.id)
           c == [Begin(p, "createExpense") EXCEPT !.user = user.id, !.doc = body]
       IN IF NeedsCategory(body)
          THEN /\ call' = [call EXCEPT ![p] = [c EXCEPT !.pc = "categorize"]]
               /\ UNCHANGED <<expenses, nextId>>
          ELSE CreateAndRespond(p, c, body)
    /\ requests' = requests + 1
    /\ UNCHANGED <<employees, payrolls, clock>>

\* the ML service call returns: the suggestion is applied or not, then the
\* expense is created; the call keeps aiResult in ai
CategorizeReturn(p, reply) ==
    /\ call[p].pc = "categorize"
    /\ LET aiResult == CategorizeExpense(reply)
           c == [call[p] EXCEPT !.ai = aiResult]
       IN CreateAndRespond(p, c, ApplySuggestion(call[p].doc, aiResult))
    /\ UNCHANGED <<employees, payrolls, clock, requests>>

\* req.params.id of an expense request (99: an ObjectId no expense has)
ExpenseIdInputs == {1, 99}

\* req.body of an expense update: a new date, a new category
ExpenseUpdateBodies ==
    {{<< <<"date">>, [y |-> 2023, m |-> 12, d |-> 31] >>},
     {<< <<"category">>, "Rent" >>}}

\* runValidators: true on the paths the update sets
ExpenseUpdateValid(body) ==
    \A a \in body :
        /\ a[1] = <<"category">> => a[2] \in ExpenseCategories
        /\ a[1] = <<"month">> => (a[2] >= 1 /\ a[2] <= 12)
        /\ a[1] = <<"amount">> => a[2] >= 0

\* updateExpense: Expense.findById (404), the ownership check (403), then
\* Expense.findByIdAndUpdate(id, req.body, { new: true, runValidators: true }),
\* which runs no pre('save') hook
UpdateExpense(p, id, body, user) ==
    /\ CanStart(p)
    /\ LET c == [Begin(p, "updateExpense") EXCEPT !.id = id, !.body = body,
                                                  !.user = user.id, !.pc = "done"]
           found == {e \in expenses : e._id = id}
       IN IF found = {}
          THEN /\ call' = [call EXCEPT ![p] =
                       [c EXCEPT !.resp = [status |-> 404, success |-> FALSE]]]
               /\ UNCHANGED expenses
          ELSE LET old == CHOOSE e \in found : TRUE
                   new == Put(ApplyUpdate(old, body), "updatedBy", user.id)
               IN IF old.createdBy # user.id /\ user.role # "Admin"
                  THEN /\ call' = [call EXCEPT ![p] =
                               [c EXCEPT !.resp = [status |-> 403, success |-> FALSE]]]
                       /\ UNCHANGED expenses
                  ELSE IF ~ExpenseUpdateValid(body)
                  THEN /\ call' = [call EXCEPT ![p] = [c EXCEPT !.resp = ServerError]]
                       /\ UNCHANGED expenses
                  ELSE /\ expenses' = (expenses \ {old}) \cup {new}
                       /\ call' = [call EXCEPT ![p] =
                               [c EXCEPT !.resp = [status |-> 200, success |-> TRUE,
                                                   data |-> new]]]
    /\ requests' = requests + 1
    /\ UNCHANGED <<employees, payrolls, nextId, clock>>

\* the server on an empty Expense collection
ExpenseInit ==
    /\ employees = (1 :> EmployeeDoc(1, "Active", CfgExample))
                   @@ (2 :> EmployeeDoc(2, "Active", CfgHighDeductions))
    /\ payrolls = {}
    /\ nextId = 1
    /\ clock = 0
    /\ requests = 0
    /\ call = [p \in Procs |-> Idle]
    /\ expenses = {}

ExpenseNext ==
    \/ \E p \in Procs, form \in ExpenseForms, user \in ExpenseUsers :
          CreateExpense(p, form, user)
    \/ \E p \in Procs, reply \in MlReplies : CategorizeReturn(p, reply)
    \/ \E p \in Procs, id \in ExpenseIdInputs, body \in ExpenseUpdateBodies,
          user \in ExpenseUsers : UpdateExpense(p, id, body, user)

ExpenseSpec == ExpenseInit /\ [][ExpenseNext]_vars

-----------------------------------------------------------------------------
(* Properties *)

\* the process requests in flight or answered
ProcessCalls == {p \in Procs : call[p].op = "process"}

\* a process request that got past the month/year guard and the period gate
PassedGate(p) ==
    /\ call[p].op = "process"
    /\ \/ call[p].pc \in {"fetch", "loop"}
       \/ call[p].pc = "done" /\ call[p].resp.status = 201

\* C1: in every reachable state at most one payroll record exists for each
\* (employee, month, year), whatever process, update and markPaid calls ran
\* and however two process calls for one period interleaved.
C1_UniquePerEmployeePeriod ==
    \A d1 \in payrolls : \A d2 \in payrolls :
        (d1.employee = d2.employee /\ d1.month = d2.month /\ d1.year = d2.year)
            => d1 = d2

\* C1 witness: two process calls for one period both passed the gate, each
\* attempted an employee, and the ledger holds records.
C1_Witness ==
    /\ \A p \in Procs : PassedGate(p) /\ call[p].pc = "done" /\ Len(call[p].emps) > 0
    /\ call["p1"].month = call["p2"].month /\ call["p1"].year = call["p2"].year
    /\ Cardinality(payrolls) = 2

\* C2: every persisted record's totalEarnings, totalDeductions and
\* totalReimbursements equal the sums of its earnings, deductions and
\* reimbursements components.
C2_TotalsAreComponentSums ==
    \A d \in payrolls :
        /\ d.totalEarnings =
             d.earnings.basicSalary + d.earnings.hra + d.earnings.allowances
             + d.earnings.bonuses + d.earnings.incentives + d.earnings.overtime.amount
             + d.earnings.arrears + d.earnings.other
        /\ d.totalDeductions =
             d.deductions.tax + d.deductions.providentFund
             + d.deductions.employeeStateInsurance + d.deductions.professionalTax
             + d.deductions.insurance + d.deductions.loan + d.deductions.advance
             + d.deductions.lateDeduction + d.deductions.other
        /\ d.totalReimbursements =
             d.reimbursements.travel + d.reimbursements.medical
             + d.reimbursements.food + d.reimbursements.communication
             + d.reimbursements.other

\* C3: every persisted record has
\* netSalary = max(0, totalEarnings - totalDeductions + totalReimbursements),
\* so netSalary is never negative.
C3_NetSalaryFlooredAtZero ==
    \A d \in payrolls :
        /\ d.netSalary >= 0
        /\ d.netSalary =
             (IF d.totalEarnings - d.totalDeductions + d.totalReimbursements >= 0
              THEN d.totalEarnings - d.totalDeductions + d.totalReimbursements
              ELSE 0)

\* C4: a successful update answers with (and has stored) a record whose
\* derived totals are those computed from its stored components, not the
\* previous or the caller-supplied values.
C4_UpdateRecomputesTotals ==
    \A p \in Procs :
        (call[p].op = "update" /\ call[p].pc = "done" /\ call[p].resp.status = 200)
            => LET d == call[p].resp.data
                   te == SumEarnings(d.earnings)
                   td == SumDeductions(d.deductions)
                   tr == SumReimbursements(d.reimbursements)
               IN /\ d.totalEarnings = te
                  /\ d.totalDeductions = td
                  /\ d.totalReimbursements = tr
                  /\ d.netSalary = Max(0, te - td + tr)

\* C5: every persisted record has
\* grossSalary = earnings.basicSalary + earnings.hra + earnings.allowances.
C5_GrossIsFixedComponents ==
    \A d \in payrolls :
        d.grossSalary = d.earnings.basicSalary + d.earnings.hra + d.earnings.allowances

\* C6: a process(month, year) request that arrives when a record of that
\* period exists is answered at once with the "already processed" rejection:
\* no employee is read and the Payroll collection is left as it was.
C6_PeriodGateRejects ==
    [][\A p \in Procs :
          ( /\ call[p].pc \in {"idle", "done"}
            /\ requests' = requests + 1
            /\ call'[p] # call[p]
            /\ call'[p].op = "process"
            /\ \E d \in payrolls :
                  d.month = call'[p].month /\ d.year = call'[p].year )
          => ( /\ call'[p].pc = "done"
               /\ call'[p].resp.status = 400
               /\ call'[p].resp.success = FALSE
               /\ call'[p].emps = <<>>
               /\ payrolls' = payrolls )]_vars

\* C6 witness: a process call for a period that has records was rejected.
C6_Witness ==
    \E p \in Procs :
        /\ call[p].op = "process" /\ call[p].pc = "done"
        /\ call[p].resp.status = 400
        /\ \E d \in payrolls : d.month = call[p].month /\ d.year = call[p].year

\* C7: a process request whose month is outside 1..12 or whose year is not
\* positive is rejected: its answer is not a success Summary, and it has
\* read no employee and attempted no record.
C7_InvalidPeriodRejected ==
    \A p \in Procs :
        (call[p].op = "process" /\ call[p].pc = "done"
         /\ (call[p].month < 1 \/ call[p].month > 12 \/ call[p].year < 1))
            => /\ call[p].resp.success = FALSE
               /\ call[p].emps = <<>>
               /\ call[p].errors = <<>>

\* C8: the employees a process call works on (and so every record it
\* creates and every failure it reports) were Active in the list it
\* fetched; an employee with any other status is not in its batch.
C8_BatchIsActiveOnly ==
    \A p \in ProcessCalls :
        /\ \A k \in 1..Len(call[p].emps) : call[p].emps[k].status = "Active"
        /\ \A j \in 1..Len(call[p].created) :
              \E d \in payrolls : \E k \in 1..Len(call[p].emps) :
                  d._id = call[p].created[j] /\ d.employee = call[p].emps[k]._id
        /\ \A j \in 1..Len(call[p].errors) :
              \E k \in 1..Len(call[p].emps) :
                  call[p].errors[j].employee = call[p].emps[k].employeeId

\* C8 witness: a process call answered with a Summary for a one-employee
\* batch while the other employee was not Active.
C8_Witness ==
    \E p \in Procs :
        /\ PassedGate(p) /\ call[p].pc = "done"
        /\ Len(call[p].emps) = 1
        /\ \E e \in EmpIds : employees[e].status # "Active"

\* C9: in a process call past the gate a failing employee does not end the
\* loop: every employee before the current one is either processed or in
\* errors, and the call answers with a success Summary in which
\* processed + failed is the number of employees fetched, processed is the
\* number of records the call persisted and every failed employee is named.
C9_PartialFailureSummary ==
    \A p \in ProcessCalls :
        LET c == call[p]
            mine == {d \in payrolls : \E j \in 1..Len(c.created) : d._id = c.created[j]}
            named == {c.errors[j].employee : j \in 1..Len(c.errors)}
        IN /\ c.pc = "loop" =>
                /\ c.i \in 1..Len(c.emps)
                /\ Len(c.created) + Len(c.errors) = c.i - 1
           /\ (c.pc = "done" /\ c.resp.status # 400) =>
                /\ c.resp.status = 201 /\ c.resp.success
                /\ c.resp.processed + c.resp.failed = Len(c.emps)
                /\ c.resp.processed = Cardinality(mine)
                /\ c.resp.failed = Len(c.errors)
                /\ c.resp.errors = c.errors
                /\ \A k \in 1..Len(c.emps) :
                      \/ c.emps[k].employeeId \in named
                      \/ \E d \in mine : d.employee = c.emps[k]._id

\* C9 witness: a two-employee batch whose first employee failed was carried
\* through to a success Summary.
C9_Witness ==
    \E p \in Procs :
        /\ PassedGate(p) /\ call[p].pc = "done"
        /\ Len(call[p].emps) = 2
        /\ call[p].resp.failed >= 1
        /\ call[p].errors[1].employee = call[p].emps[1].employeeId

\* C10: when a process call for a valid period passes the gate and runs
\* alone, every Active employee with a valid configuration has a persisted
\* record for the period when the call returns and is not in errors.
C10_ValidEmployeesGetRecord ==
    \A p \in Procs : \A q \in Procs \ {p} :
        ( /\ PassedGate(p) /\ call[p].pc = "done"
          /\ call[p].month \in 1..12 /\ call[p].year >= 1
          /\ call[q].pc = "idle" )
        => \A k \in 1..Len(call[p].emps) :
              ValidConfig(call[p].emps[k]) =>
                /\ \E d \in payrolls :
                      /\ d.employee = call[p].emps[k]._id
                      /\ d.month = call[p].month /\ d.year = call[p].year
                /\ \A j \in 1..Len(call[p].errors) :
                      call[p].errors[j].employee # call[p].emps[k].employeeId

\* a process call for a valid period that passed the gate, ran with no other
\* request in flight or answered, and has returned
SoloProcessDone(p) ==
    /\ PassedGate(p) /\ call[p].pc = "done"
    /\ call[p].month \in 1..12 /\ call[p].year >= 1
    /\ \A q \in Procs \ {p} : call[q].pc = "idle"

C12_PersistedTotalsFromConfig ==
    \A p \in Procs :
        SoloProcessDone(p) =>
            \A k \in 1..Len(call[p].emps) :
                LET e == call[p].emps[k]
                IN ValidConfig(e) =>
                    \E d \in payrolls :
                        /\ d.employee = e._id
                        /\ d.month = call[p].month /\ d.year = call[p].year
                        /\ d.grossSalary = e.salary.basic + e.salary.hra + e.salary.allowances
                        /\ d.totalEarnings = e.salary.basic + e.salary.hra + e.salary.allowances
                        /\ d.totalDeductions =
                             e.deductions.tax + e.deductions.providentFund
                             + e.deductions.insurance + e.deductions.other
                        /\ d.totalReimbursements = 0
                        /\ d.netSalary >= 0
                        /\ d.netSalary >= d.totalEarnings - d.totalDeductions
                        /\ d.netSalary \in {0, d.totalEarnings - d.totalDeductions}
                        /\ (e.salary = [basic |-> 3000, hra |-> 500, allowances |-> 200]
                            /\ e.deductions = [tax |-> 300, providentFund |-> 150,
                                               insurance |-> 50, other |-> 0])
                           => /\ d.grossSalary = 3700 /\ d.totalEarnings = 3700
                              /\ d.totalDeductions = 500 /\ d.netSalary = 3200

C14_EmployeeChangeKeepsPayrolls ==
    [][((employees' # employees)
        \/ \E p \in Procs : /\ call'[p] # call[p]
                            /\ call'[p].op \in {"updateEmployee", "deleteEmployee"})
       => payrolls' = payrolls]_vars

\* an employee update or soft delete succeeded for an employee that has a
\* payroll record, and the record no longer agrees with the employee
C14_Witness ==
    \E p \in Procs :
        /\ call[p].op \in {"updateEmployee", "deleteEmployee"}
        /\ call[p].pc = "done" /\ call[p].resp.status = 200
        /\ \E d \in payrolls :
              /\ d.employee = call[p].id
              /\ \/ d.earnings.basicSalary # employees[call[p].id].salary.basic
                 \/ employees[call[p].id].status = "Terminated"

\* C15: when markPaid(recordId, transactionId) succeeds on a record that was
\* Pending when it was read, the stored record has paymentStatus Paid, the
\* supplied transactionId and a paymentDate, and its employee, month, year,
\* earnings, deductions and reimbursements are what was stored before the save.
C15_MarkPaidTransition ==
    [][\A p \in Procs :
          (/\ call[p].pc = "save" /\ call[p].doc.paymentStatus = "Pending"
           /\ call'[p].pc = "done" /\ call'[p].resp.status = 200)
          => /\ \E d \in payrolls' : d._id = call[p].id
             /\ \A d \in payrolls' :
                   d._id = call[p].id =>
                      /\ d.paymentStatus = "Paid"
                      /\ Has(d, "transactionId") /\ d.transactionId = call[p].txn
                      /\ Has(d, "paymentDate") /\ d.paymentDate = clock'
                      /\ \E o \in payrolls :
                            /\ o._id = d._id
                            /\ o.employee = d.employee
                            /\ o.month = d.month /\ o.year = d.year
                            /\ o.earnings = d.earnings
                            /\ o.deductions = d.deductions
                            /\ o.reimbursements = d.reimbursements
             /\ \A d \in payrolls : d._id # call[p].id => d \in payrolls'
      ]_vars

\* markPaid succeeded on a record it had read as Pending
C15_Witness ==
    \E p \in Procs :
        /\ call[p].op = "markPaid" /\ call[p].pc = "done"
        /\ call[p].resp.status = 200
        /\ call[p].doc.paymentStatus = "Pending"
        /\ \E d \in payrolls : d._id = call[p].id /\ d.paymentStatus = "Paid"

\* C16: a get, update, markPaid or renderSlip request whose record id no
\* stored record has is answered with a not-found failure (404), and the
\* request leaves every stored payroll record unchanged.
C16_UnknownIdNotFound ==
    [][\A p \in Procs :
          (/\ call[p].pc \in {"idle", "done"} /\ call'[p] # call[p]
           /\ call'[p].op \in {"get", "update", "markPaid", "slip"}
           /\ ~\E d \in payrolls : d._id = call'[p].id)
          => /\ call'[p].pc = "done"
             /\ call'[p].resp.status = 404
             /\ payrolls' = payrolls
      ]_vars

\* a record of employee e for the period of call p that call p created
CountsAsProcessed(p, e) ==
    \E k \in 1..Len(call[p].created) :
        \E d \in payrolls :
            /\ d._id = call[p].created[k]
            /\ d.employee = e._id
            /\ d.month = call[p].month /\ d.year = call[p].year

\* C17: when two process calls for the same period both pass the period
\* gate, both return a Summary (201), the write that loses the uniqueness
\* constraint is in the loser's errors list, and each Active employee with a
\* proper configuration is counted as processed by exactly one of the calls.
C17_RaceBothSummariesOneWinner ==
    \A p, q \in Procs :
        (/\ p # q /\ PassedGate(p) /\ PassedGate(q)
         /\ call[p].pc = "done" /\ call[q].pc = "done"
         /\ call[p].month = call[q].month /\ call[p].year = call[q].year
         /\ call[p].month \in 1..12 /\ call[p].year >= 1)
        => /\ call[p].resp.status = 201 /\ call[q].resp.status = 201
           /\ call[p].resp.processed + call[p].resp.failed = Len(call[p].emps)
           /\ \A k \in 1..Len(call[p].emps) :
                 LET e == call[p].emps[k]
                 IN (ValidConfig(e) /\ \E j \in 1..Len(call[q].emps) : call[q].emps[j] = e)
                    => /\ CountsAsProcessed(p, e) \/ CountsAsProcessed(q, e)
                       /\ ~(CountsAsProcessed(p, e) /\ CountsAsProcessed(q, e))
                       /\ ~CountsAsProcessed(p, e) =>
                             \E i \in 1..Len(call[p].errors) :
                                 call[p].errors[i].employee = e.employeeId

\* C18: when an update of a record is acknowledged between markPaid's read
\* of the record and its save, the change is not silently lost: a save that
\* is acknowledged (200) leaves every path another writer changed since the
\* read as that writer stored it; otherwise the save must fail.
C18_NoLostUpdate ==
    [][\A p \in Procs :
          (/\ call[p].pc = "save" /\ call'[p].pc = "done"
           /\ call'[p].resp.status = 200)
          => \A cur \in payrolls :
                cur._id = call[p].id =>
                   \A k \in DOMAIN cur :
                      (~Has(call[p].doc, k) \/ cur[k] # call[p].doc[k])
                      => \E new \in payrolls' :
                            new._id = cur._id /\ Has(new, k) /\ new[k] = cur[k]
      ]_vars

\* the stored record with _id i when it belongs to the period and is not
\* Failed: its field f, else 0
CountedField(i, f, month, year) ==
    IF \E d \in payrolls : /\ d._id = i /\ d.month = month /\ d.year = year
                           /\ d.paymentStatus # "Failed"
    THEN (CHOOSE d \in payrolls : d._id = i)[f]
    ELSE 0

\* C19: statsForPeriod(month, year) answers count = the number of stored
\* records of the period whose paymentStatus is not Failed, and totalGross,
\* totalEarnings, totalDeductions and totalNet = the sums of grossSalary,
\* totalEarnings, totalDeductions and netSalary over exactly those records;
\* all five are 0 when there is no such record.
C19_StatsOverNonFailed ==
    [][\A p \in Procs :
          (/\ call[p].pc \in {"idle", "done"} /\ call'[p] # call[p]
           /\ call'[p].op = "stats")
          => LET r == call'[p].resp
                 m == call'[p].month
                 y == call'[p].year
                 counted == {d \in payrolls : /\ d.month = m /\ d.year = y
                                              /\ d.paymentStatus # "Failed"}
             IN /\ r.status = 200
                /\ r.data.count = Cardinality(counted)
                /\ r.data.totalGross =
                      CountedField(1, "grossSalary", m, y)
                      + CountedField(2, "grossSalary", m, y)
                /\ r.data.totalEarnings =
                      CountedField(1, "totalEarnings", m, y)
                      + CountedField(2, "totalEarnings", m, y)
                /\ r.data.totalDeductions =
                      CountedField(1, "totalDeductions", m, y)
                      + CountedField(2, "totalDeductions", m, y)
                /\ r.data.totalNet =
                      CountedField(1, "netSalary", m, y)
                      + CountedField(2, "netSalary", m, y)
                /\ \A d \in payrolls : d._id \in {1, 2}
                /\ counted = {} =>
                      /\ r.data.count = 0 /\ r.data.totalGross = 0
                      /\ r.data.totalEarnings = 0 /\ r.data.totalDeductions = 0
                      /\ r.data.totalNet = 0
      ]_vars

\* stats were answered for a period that holds a Failed record and a record
\* that counts
C19_Witness ==
    \E p \in Procs :
        /\ call[p].op = "stats" /\ call[p].pc = "done"
        /\ call[p].resp.data.count = 1
        /\ \E d \in payrolls : /\ d.month = call[p].month /\ d.year = call[p].year
                               /\ d.paymentStatus = "Failed"

\* the limit a history call asked for: the number given, else 12
AskedLimit(p) ==
    IF call[p].body = {} THEN 12
    ELSE (CHOOSE a \in call[p].body : a[1] = <<"limit">>)[2]

\* C20: historyForEmployee(employeeId, limit) returns only records of that
\* employee, ordered by year descending then month descending, at most limit
\* of them (12 when no limit is given), and the ones returned are the most
\* recent: every record of the employee left out is older than all returned.
C20_HistoryMostRecentLimited ==
    \A p \in Procs :
        (call[p].op = "history" /\ call[p].pc = "done")
        => LET r == call[p].resp.data
               mine == {d \in payrolls : d.employee = call[p].id}
               ids == {r[k]._id : k \in 1..Len(r)}
           IN /\ \A k \in 1..Len(r) : \E d \in mine : d._id = r[k]._id
              /\ \A k \in 1..Len(r) - 1 :
                    \/ r[k].year > r[k + 1].year
                    \/ r[k].year = r[k + 1].year /\ r[k].month > r[k + 1].month
              /\ Len(r) <= AskedLimit(p)
              /\ Len(r) = Cardinality(mine) \/ Len(r) = AskedLimit(p)
              /\ \A d \in mine :
                    d._id \notin ids =>
                       \A k \in 1..Len(r) :
                          \/ r[k].year > d.year
                          \/ r[k].year = d.year /\ r[k].month > d.month

\* C21: the set of payroll records only grows and only through process: no
\* step removes a record identifier, a step that adds one is an iteration of
\* process's loop, and get, list, update, markPaid, stats and renderSlip
\* leave the set of record identifiers as it was.
C21_LedgerOnlyGrowsByProcess ==
    [][/\ \A d \in payrolls : \E e \in payrolls' : e._id = d._id
       /\ {d._id : d \in payrolls'} # {d._id : d \in payrolls}
             => \E p \in Procs : call[p].op = "process" /\ call[p].pc = "loop"
                                 /\ call'[p] # call[p]
       /\ \A p \in Procs :
             (call'[p] # call[p]
              /\ call'[p].op \in {"get", "list", "update", "markPaid", "stats", "slip"})
             => {d._id : d \in payrolls'} = {d._id : d \in payrolls}
      ]_vars

\* an update and a markPaid both wrote record 1, and the ledger still holds
\* the identifiers it started with
C21_Witness ==
    /\ \E p \in Procs : call[p].op = "update" /\ call[p].pc = "done"
                        /\ call[p].resp.status = 200 /\ call[p].id = 1
    /\ \E p \in Procs : call[p].op = "markPaid" /\ call[p].pc = "done"
                        /\ call[p].resp.status = 200 /\ call[p].id = 1
    /\ {d._id : d \in payrolls} = {1, 2}

\* C22: deleting an employee never removes it: when deleteEmployee succeeds
\* the employee is still in the collection under the same identifier, with
\* status Terminated, and every payroll record that referenced it is still
\* stored and still references it.
C22_DeleteKeepsEmployeeAndRecords ==
    [][\A p \in Procs :
          (/\ call'[p] # call[p] /\ call'[p].op = "deleteEmployee"
           /\ call'[p].resp.status = 200)
          => LET id == call'[p].id
             IN /\ id \in DOMAIN employees /\ id \in DOMAIN employees'
                /\ employees'[id]._id = id
                /\ employees'[id].employeeId = employees[id].employeeId
                /\ employees'[id].status = "Terminated"
                /\ \A d \in payrolls : d.employee = id => d \in payrolls'
      ]_vars

\* deleteEmployee succeeded for an employee with a payroll record
C22_Witness ==
    \E p \in Procs :
        /\ call[p].op = "deleteEmployee" /\ call[p].pc = "done"
        /\ call[p].resp.status = 200
        /\ employees[call[p].id].status = "Terminated"
        /\ \E d \in payrolls : d.employee = call[p].id

\* C23: payment and approval are independent: the save of markPaid succeeds
\* whatever the record's approvalStatus is, and leaves
\* approvalStatus, approvedBy and approvedAt as they were stored (set or not).
C23_MarkPaidIgnoresApproval ==
    [][\A p \in Procs :
          (call[p].pc = "save" /\ call'[p].pc = "done")
          => /\ call'[p].resp.status = 200
             /\ \A cur \in payrolls :
                   cur._id = call[p].id =>
                      \E new \in payrolls' :
                         /\ new._id = cur._id
                         /\ \A k \in {"approvalStatus", "approvedBy", "approvedAt"} :
                               /\ Has(new, k) <=> Has(cur, k)
                               /\ Has(cur, k) => new[k] = cur[k]
      ]_vars

\* markPaid succeeded and the record is Paid while its approval is Pending
C23_Witness ==
    \E p \in Procs :
        /\ call[p].op = "markPaid" /\ call[p].pc = "done"
        /\ call[p].resp.status = 200
        /\ \E d \in payrolls : /\ d._id = call[p].id
                               /\ d.paymentStatus = "Paid"
                               /\ d.approvalStatus = "Pending"
                               /\ ~Has(d, "approvedBy") /\ ~Has(d, "approvedAt")

\* C24: every approval transition records who approved and when: in every
\* reachable state a record whose approvalStatus is Approved or Rejected has
\* an approvedBy and an approvedAt.
C24_ApprovalRecordsApprover ==
    \A d \in payrolls :
        d.approvalStatus \in {"Approved", "Rejected"}
        => Has(d, "approvedBy") /\ Has(d, "approvedAt")

\* C25: markPaid is the only payment transition, and Paid is terminal: a
\* step changes a stored paymentStatus only when it is the save of markPaid,
\* and a record that is Paid is still Paid after every step.
C25_OnlyMarkPaidMovesPayment ==
    [][\A d \in payrolls :
          \A e \in payrolls' :
             e._id = d._id =>
                /\ e.paymentStatus # d.paymentStatus
                      => \E p \in Procs : /\ call[p].pc = "save" /\ call[p].id = d._id
                                          /\ call'[p].pc = "done"
                /\ d.paymentStatus = "Paid" => e.paymentStatus = "Paid"
      ]_vars

\* C26: in every reachable state a record whose paymentStatus is Paid has a
\* paymentDate, whether markPaid or update put it in that status.
C26_PaidHasPaymentDate ==
    \A d \in payrolls : d.paymentStatus = "Paid" => Has(d, "paymentDate")

\* C27: markPaid has no guard on the current payment status: the save of a
\* markPaid that read the record as it is stored, whatever its paymentStatus
\* (Pending, Paid, Failed, ...), succeeds, stores Paid, and stores the
\* supplied transaction id and the current time in place of the old ones.
C27_MarkPaidUnguarded ==
    [][\A p \in Procs :
          (/\ call[p].pc = "save" /\ call'[p].pc = "done"
           /\ call[p].doc \in payrolls)
          => /\ call'[p].resp.status = 200
             /\ \E new \in payrolls' :
                   /\ new._id = call[p].id
                   /\ new.paymentStatus = "Paid"
                   /\ Has(new, "transactionId") /\ new.transactionId = call[p].txn
                   /\ Has(new, "paymentDate") /\ new.paymentDate = clock'
                   /\ Has(call[p].doc, "paymentDate")
                         => new.paymentDate > call[p].doc.paymentDate
      ]_vars

\* markPaid succeeded on a record that was already Paid under another
\* transaction id, and the record now carries the new one
C27_Witness ==
    \E p \in Procs :
        /\ call[p].op = "markPaid" /\ call[p].pc = "done"
        /\ call[p].resp.status = 200
        /\ call[p].doc.paymentStatus = "Paid"
        /\ Has(call[p].doc, "transactionId")
        /\ call[p].doc.transactionId # call[p].txn
        /\ \E d \in payrolls : /\ d._id = call[p].id
                               /\ d.paymentStatus = "Paid"
                               /\ d.transactionId = call[p].txn
                               /\ d.paymentDate > call[p].doc.paymentDate

\* C28: a process call that persists no record does not close the period:
\* it returns a success Summary with processed = 0, and a later process
\* call for the same (month, year) passes the period gate (it goes on to
\* fetch the Active employees) instead of being rejected as already processed.
C28_EmptyRunLeavesPeriodOpen ==
    [][\A p \in Procs :
          (/\ call[p].op = "process" /\ call[p].pc = "done"
           /\ call[p].resp.status = 201 /\ Len(call[p].created) = 0)
          => /\ call[p].resp.success /\ call[p].resp.processed = 0
             /\ call[p].resp.failed = Len(call[p].emps)
             /\ \A q \in Procs :
                   (/\ call[q].pc \in {"idle", "done"} /\ call'[q] # call[q]
                    /\ call'[q].op = "process"
                    /\ call'[q].month = call[p].month /\ call'[q].year = call[p].year
                    /\ ~\E d \in payrolls : d.month = call[p].month /\ d.year = call[p].year)
                   => call'[q].pc = "fetch"
      ]_vars

\* a process call for April 2024 ended with every employee failed and no
\* record stored, and another process call for April 2024 is past the gate
C28_Witness ==
    \E p, q \in Procs :
        /\ p # q
        /\ call[p].op = "process" /\ call[p].pc = "done"
        /\ call[p].resp.status = 201 /\ call[p].resp.processed = 0
        /\ Len(call[p].emps) > 0
        /\ call[q].op = "process" /\ call[q].pc = "fetch"
        /\ call[q].month = call[p].month /\ call[q].year = call[p].year
        /\ ~\E d \in payrolls : d.month = call[p].month /\ d.year = call[p].year


\* the category of the form as the schema stores it when nothing replaces it
SubmittedCategory(body) == IF Has(body, "category") THEN body.category ELSE "Other"

\* C29: createExpense consults the categorization service exactly when the
\* submitted category is absent or 'Other'; the suggestion replaces the
\* category (with aiSuggested true and the confidence recorded) exactly when
\* the service succeeded with a confidence above 0.6; when the service
\* failed the expense is still created, with the category as submitted and
\* aiSuggested false.
C29_SuggestionOnlyWhenConfident ==
    [][\A p \in Procs :
         /\ (CanStart(p) /\ call'[p].op = "createExpense" /\ call'[p] # call[p])
               => LET body == call'[p].doc
                  IN /\ (call'[p].pc = "categorize") = NeedsCategory(body)
                     /\ call'[p].pc = "done" =>
                           /\ call'[p].resp.status = 201
                           /\ call'[p].resp.data.category = body.category
                           /\ call'[p].resp.data.aiSuggested = FALSE
                           /\ call'[p].resp.data \in expenses'
         /\ (call[p].pc = "categorize" /\ call'[p].pc = "done")
               => LET body == call[p].doc
                      aiResult == call'[p].ai
                      replaced == aiResult.success /\ aiResult.confidence > 60
                  IN /\ ~aiResult.success => call'[p].resp.status = 201
                     /\ call'[p].resp.status = 201 =>
                           LET e == call'[p].resp.data
                           IN /\ e \in expenses' /\ e \notin expenses
                              /\ replaced =>
                                    /\ e.category = aiResult.category
                                    /\ e.aiSuggested = TRUE
                                    /\ e.aiConfidence = aiResult.confidence
                              /\ ~replaced =>
                                    /\ e.category = SubmittedCategory(body)
                                    /\ e.aiSuggested = FALSE
                                    /\ ~Has(e, "aiConfidence")]_vars

\* the service failed and the expense is stored as submitted, while another
\* expense carries a suggestion the service made with confidence 0.9
C29_Witness ==
    /\ \E p \in Procs :
          /\ call[p].op = "createExpense" /\ call[p].pc = "done"
          /\ call[p].ai # <<>> /\ ~call[p].ai.success
          /\ call[p].resp.status = 201
          /\ call[p].resp.data \in expenses
          /\ call[p].resp.data.category = "Other"
          /\ call[p].resp.data.aiSuggested = FALSE
    /\ \E e \in expenses :
          e.aiSuggested /\ e.category = "Software" /\ e.aiConfidence = 90

\* C30: every stored expense's month and year are the calendar month and
\* year of its date, after createExpense and after any updateExpense that
\* changes the date.
C30_MonthYearFollowDate ==
    \A e \in expenses :
        /\ Has(e, "month") /\ Has(e, "year")
        /\ e.month = GetMonth(e.date) + 1
        /\ e.year = GetFullYear(e.date)

====
